---- MODULE Spec2Model ----
(***************************************************************************)
(* Model of send_motivation.py: one scheduled run loads the local quote    *)
(* collection, picks a local quote, computes the day count, fetches a      *)
(* remote quote (falling back to a local one), asks the generative API for *)
(* a quote (falling back to a fixed string, saving a success to the        *)
(* rolling history file), composes the body and sends it through SMTP.     *)
(*                                                                         *)
(* Texts are sequences of string tokens, so that concatenation, strip()    *)
(* and f-string formatting are computed rather than assumed.  The body is  *)
(* a sequence of lines, each a sequence of tokens.                         *)
(***************************************************************************)
EXTENDS Integers, Sequences, FiniteSets, TLC

VARIABLES
    history_file,    \* quote_history.json: [exists, entries]
    quotes_file,     \* quotes.json: the bundled collection
    environ,         \* os.environ: the set of required variables that are set
    start_date_env,  \* os.environ.get("START_DATE"): "" when unset
    now,             \* datetime.now(), as the day of the year 2025
    net_api,         \* what the ZenQuotes request of this run returns
    net_claude,      \* what the generative request of this run returns
    net_smtp,        \* what the mail relay of this run does
    pc,              \* position of main()
    failed_at,       \* the step whose exception left main(), "" if none
    error,           \* that exception's type, "" if none
    local_quotes,    \* main: local_quotes
    local_quote,     \* main: local_quote
    local_category,  \* main: local_category
    days,            \* main: days
    api_quote,       \* main: api_quote
    api_category,    \* main: the discarded second component "_"
    fc_history,      \* fetch_claude_quote: history
    recent_quotes,   \* fetch_claude_quote: recent_quotes
    prompt,          \* fetch_claude_quote: prompt, as lines
    claude_quote,    \* main: claude_quote
    subject,         \* main: subject
    body,            \* main: body
    hist_writes,     \* number of save_quote_to_history calls of this run
    smtp_attempts,   \* number of SMTP sessions opened by this run
    delivered,       \* messages the mail relay accepted in this run
    stdout,          \* what the run printed, in order
    run              \* number of runs started

vars == <<history_file, quotes_file, environ, start_date_env, now, net_api,
          net_claude, net_smtp, pc, failed_at, error, local_quotes,
          local_quote, local_category, days, api_quote, api_category,
          fc_history, recent_quotes, prompt, claude_quote, subject, body,
          hist_writes, smtp_attempts, delivered, stdout, run>>

(***************************************************************************)
(* Bounds and program constants                                            *)
(***************************************************************************)
MaxRuns == 2

HistoryCap == 30

RecentCount == 5

(***************************************************************************)
(* Text helpers                                                            *)
(***************************************************************************)
Whitespace == {" ", "\n", "\t"}

RECURSIVE LStrip(_)
LStrip(s) ==
    IF s # <<>> /\ Head(s) \in Whitespace THEN LStrip(Tail(s)) ELSE s

RECURSIVE RStrip(_)
RStrip(s) ==
    IF s # <<>> /\ s[Len(s)] \in Whitespace
    THEN RStrip(SubSeq(s, 1, Len(s) - 1))
    ELSE s

\* str.strip()
Strip(s) == RStrip(LStrip(s))

Digit(d) ==
    CASE d = 0 -> "0" [] d = 1 -> "1" [] d = 2 -> "2" [] d = 3 -> "3"
      [] d = 4 -> "4" [] d = 5 -> "5" [] d = 6 -> "6" [] d = 7 -> "7"
      [] d = 8 -> "8" [] d = 9 -> "9"

RECURSIVE NatStr(_)
NatStr(n) ==
    IF n < 10 THEN <<Digit(n)>> ELSE NatStr(n \div 10) \o <<Digit(n % 10)>>

\* str(int), as an f-string renders it
IntStr(n) == IF n < 0 THEN <<"-">> \o NatStr(0 - n) ELSE NatStr(n)

\* Python's s[-n:]
PySliceLast(s, n) ==
    IF Len(s) <= n THEN s ELSE SubSeq(s, Len(s) - n + 1, Len(s))

Range(s) == {s[i] : i \in 1..Len(s)}

(***************************************************************************)
(* Inputs: files, environment, network                                     *)
(***************************************************************************)
RequiredVars ==
    {"GMAIL_ADDRESS", "GMAIL_APP_PASSWORD", "EMAIL_RECIPIENT",
     "ANTHROPIC_API_KEY"}

\* The environments a run is started in: everything set, one variable
\* missing, or nothing set.
Environments ==
    {RequiredVars \ m : m \in {{}} \cup {{v} : v \in RequiredVars}} \cup {{}}

StartDateValues == {"", "2025-02-01", "not-a-date"}

QuoteCollections ==
    { <<>>,
      << [text |-> <<"Keep going">>, category |-> "general"] >>,
      << [text |-> <<"One breath at a time">>, category |-> "smoking"],
         [text |-> <<"Move a little">>, category |-> "fitness"] >> }

ApiResponses ==
    { [kind |-> "ok", q |-> <<"Stay the course.">>, a |-> <<"Seneca">>],
      [kind |-> "timeout", q |-> <<>>, a |-> <<>>],
      [kind |-> "http_error", q |-> <<>>, a |-> <<>>],
      [kind |-> "malformed", q |-> <<>>, a |-> <<>>] }

ClaudeResponses ==
    { [kind |-> "ok", status |-> 200,
       text |-> <<" ", "Ask for help today.", "\n">>],
      [kind |-> "ok", status |-> 200, text |-> <<"Show up anyway.">>],
      [kind |-> "http_error", status |-> 500, text |-> <<>>],
      [kind |-> "timeout", status |-> 0, text |-> <<>>],
      [kind |-> "malformed", status |-> 200, text |-> <<>>] }

SmtpOutcomes == {"ok", "connect_error", "auth_rejected"}

NoResponse == [kind |-> "none", status |-> 0, text |-> <<>>]

NoApiResponse == [kind |-> "none", q |-> <<>>, a |-> <<>>]

Pad2(n) == IF n < 10 THEN <<"0">> \o NatStr(n) ELSE NatStr(n)

\* datetime.strftime("%Y-%m-%d") of a day of January 2025
Strftime(d) == <<"2025", "-", "01", "-">> \o Pad2(d)

\* datetime.strptime(s, "%Y-%m-%d"), as the day of the year 2025
Strptime(s) ==
    CASE s = "2025-01-15" -> [ok |-> TRUE, day |-> 15]
      [] s = "2025-02-01" -> [ok |-> TRUE, day |-> 32]
      [] OTHER -> [ok |-> FALSE, day |-> 0]

OldEntry(i) ==
    [text |-> <<"Earlier message ">> \o IntStr(i), date |-> Strftime(19)]

InitLengths == {0, RecentCount - 1, HistoryCap - 1, HistoryCap}

InitHistoryFiles ==
    { [exists |-> FALSE, entries |-> <<>>] } \cup
    { [exists |-> TRUE, entries |-> [i \in 1..n |-> OldEntry(i)]] :
        n \in InitLengths }

(***************************************************************************)
(* The functions of send_motivation.py                                     *)
(***************************************************************************)
load_quotes(file) == file

\* The results random.choice can give; none when the collection is empty
\* (random.choice raises IndexError).
get_random_quote(quotes) == {<<q.text, q.category>> : q \in Range(quotes)}

fetch_api_quote(resp) ==
    IF resp.kind = "ok"
    THEN [raised |-> FALSE, text |-> resp.q \o <<" - ">> \o resp.a,
          category |-> "api"]
    ELSE [raised |-> TRUE, text |-> <<>>, category |-> ""]

load_quote_history(file) == IF file.exists THEN file.entries ELSE <<>>

\* Mutant: the truncation to the last 30 is left out.
save_quote_to_history_uncapped(file, quote, today) ==
    [exists |-> TRUE,
     entries |-> Append(load_quote_history(file),
                        [text |-> quote, date |-> Strftime(today)])]

\* Mutant: history[:30] in place of history[-30:], the newest entry dropped.
save_quote_to_history_keeps_first(file, quote, today) ==
    LET history == Append(load_quote_history(file),
                          [text |-> quote, date |-> Strftime(today)])
    IN  [exists |-> TRUE,
         entries |-> SubSeq(history, 1,
                            IF Len(history) < HistoryCap
                            THEN Len(history) ELSE HistoryCap)]

save_quote_to_history(file, quote, today) ==
    LET history == Append(load_quote_history(file),
                          [text |-> quote, date |-> Strftime(today)])
    IN  [exists |-> TRUE, entries |-> PySliceLast(history, HistoryCap)]

\* Mutant: history[:5] in place of history[-5:], the oldest five.
RecentQuotes_first(history) ==
    LET first == SubSeq(history, 1,
                        IF Len(history) < RecentCount
                        THEN Len(history) ELSE RecentCount)
    IN  [i \in 1..Len(first) |-> first[i].text]

RecentQuotes(history) ==
    LET last == PySliceLast(history, RecentCount)
    IN  [i \in 1..Len(last) |-> last[i].text]

BasePrompt == <<"Generate a short, original message about overcoming addiction and recovery. ...">>

VarietyIntro == <<"For variety, here are the most recent messages that were sent. ...">>

BuildPrompt(recent) ==
    IF Len(recent) > 0
    THEN <<BasePrompt, <<>>, VarietyIntro, <<>>>> \o
         [i \in 1..Len(recent) |->
            IntStr(i) \o <<". ", "\"">> \o recent[i] \o <<"\"">>]
    ELSE <<BasePrompt>>

\* fetch_claude_quote up to the request: the key, the history, the prompt
FetchClaudeBuild(env, file) ==
    IF "ANTHROPIC_API_KEY" \notin env
    THEN [raised |-> TRUE, history |-> <<>>, recent |-> <<>>,
          prompt |-> <<>>]
    ELSE LET history == load_quote_history(file)
             recent == RecentQuotes(history)
         IN  [raised |-> FALSE, history |-> history, recent |-> recent,
              prompt |-> BuildPrompt(recent)]

\* Mutant: the function swallows its own failure and returns an empty text.
FetchClaudeCall_swallows(file, resp, today) ==
    IF resp.kind = "ok"
    THEN LET quote_text == Strip(resp.text)
         IN  [raised |-> FALSE, quote |-> quote_text,
              file |-> save_quote_to_history(file, quote_text, today),
              saves |-> 1, printed |-> <<>>]
    ELSE [raised |-> FALSE, quote |-> <<>>, file |-> file, saves |-> 0,
          printed |-> <<>>]

\* Mutant: the stripped text is saved, the text as received is returned.
FetchClaudeCall_returns_raw(file, resp, today) ==
    IF resp.kind = "ok"
    THEN [raised |-> FALSE, quote |-> resp.text,
          file |-> save_quote_to_history(file, Strip(resp.text), today),
          saves |-> 1, printed |-> <<>>]
    ELSE [raised |-> TRUE, quote |-> <<>>, file |-> file, saves |-> 0,
          printed |-> IF resp.kind = "http_error"
                      THEN <<"Claude API error">> ELSE <<>>]

\* fetch_claude_quote from the request on: the response, the save
FetchClaudeCall(file, resp, today) ==
    IF resp.kind = "ok"
    THEN LET quote_text == Strip(resp.text)
         IN  [raised |-> FALSE, quote |-> quote_text,
              file |-> save_quote_to_history(file, quote_text, today),
              saves |-> 1, printed |-> <<>>]
    ELSE [raised |-> TRUE, quote |-> <<>>, file |-> file, saves |-> 0,
          printed |-> IF resp.kind = "http_error"
                      THEN <<"Claude API error">> ELSE <<>>]

calculate_days_since_start(start_env, today) ==
    LET start == Strptime(IF start_env = "" THEN "2025-01-15" ELSE start_env)
    IN  [raised |-> ~start.ok, days |-> today - start.day]

\* Mutant: two labels of the table exchanged.
CategoryLabel_swapped(category) ==
    CASE category = "general" -> "Daily Motivation"
      [] category = "smoking" -> "Sobriety Strength"
      [] category = "alcohol" -> "Smoke-Free Journey"
      [] category = "gaming" -> "Real Life Focus"
      [] OTHER -> "Daily Motivation"

CategoryLabel(category) ==
    CASE category = "general" -> "Daily Motivation"
      [] category = "smoking" -> "Smoke-Free Journey"
      [] category = "alcohol" -> "Sobriety Strength"
      [] category = "gaming" -> "Real Life Focus"
      [] OTHER -> "Daily Motivation"

Quoted(text) == <<"\"">> \o text \o <<"\"">>

\* Leading and trailing blank lines removed, as body.strip() does to the template
RECURSIVE StripLines(_)
StripLines(lines) ==
    IF lines # <<>> /\ Strip(Head(lines)) = <<>>
    THEN StripLines(Tail(lines))
    ELSE IF lines # <<>> /\ Strip(lines[Len(lines)]) = <<>>
         THEN StripLines(SubSeq(lines, 1, Len(lines) - 1))
         ELSE lines

create_email_body(lq, lcat, aq, cq, d) ==
    LET local_label == CategoryLabel(lcat)
    IN  StripLines(
          << <<>>,
             <<"Good morning!">>,
             <<>>,
             <<"Day ">> \o IntStr(d) \o <<" of your journey to a better life.">>,
             <<>>,
             <<"---">>,
             <<>>,
             <<local_label, ":">>,
             <<>>,
             Quoted(lq),
             <<>>,
             <<"---">>,
             <<>>,
             <<"Words of Wisdom:">>,
             <<>>,
             Quoted(aq),
             <<>>,
             <<"---">>,
             <<>>,
             <<"Recovery Insight:">>,
             <<>>,
             Quoted(cq),
             <<>>,
             <<"---">>,
             <<>>,
             <<"You're doing great. Every day counts. Keep going!">>,
             <<>>,
             <<"- Your Daily Motivation App">>,
             <<>> >>)

\* Mutant: a refused session is opened a second time before giving up.
send_email_retrying(env, subj, text, relay) ==
    IF {"GMAIL_ADDRESS", "GMAIL_APP_PASSWORD", "EMAIL_RECIPIENT"} \subseteq env
    THEN [raised |-> relay # "ok",
          exc |-> IF relay = "ok" THEN "" ELSE relay,
          attempts |-> IF relay = "ok" THEN 1 ELSE 2,
          accepted |-> IF relay = "ok"
                       THEN << [subject |-> subj, body |-> text] >>
                       ELSE <<>>,
          printed |-> IF relay = "ok"
                      THEN <<"Email sent successfully">> ELSE <<>>]
    ELSE [raised |-> TRUE, exc |-> "KeyError", attempts |-> 0,
          accepted |-> <<>>, printed |-> <<>>]

send_email(env, subj, text, relay) ==
    IF {"GMAIL_ADDRESS", "GMAIL_APP_PASSWORD", "EMAIL_RECIPIENT"} \subseteq env
    THEN [raised |-> relay # "ok",
          exc |-> IF relay = "ok" THEN "" ELSE relay,
          attempts |-> 1,
          accepted |-> IF relay = "ok"
                       THEN << [subject |-> subj, body |-> text] >>
                       ELSE <<>>,
          printed |-> IF relay = "ok"
                      THEN <<"Email sent successfully">> ELSE <<>>]
    ELSE [raised |-> TRUE, exc |-> "KeyError", attempts |-> 0,
          accepted |-> <<>>, printed |-> <<>>]

FallbackQuote ==
    <<"Every step forward, no matter how small, is a victory worth celebrating.">>

(***************************************************************************)
(* main(), one action per step                                             *)
(***************************************************************************)
Init ==
    /\ history_file \in InitHistoryFiles
    /\ quotes_file = <<>>
    /\ environ = {}
    /\ start_date_env = ""
    /\ now = 19
    /\ net_api = NoApiResponse
    /\ net_claude = NoResponse
    /\ net_smtp = "none"
    /\ pc = "idle"
    /\ failed_at = ""
    /\ error = ""
    /\ local_quotes = <<>>
    /\ local_quote = <<>>
    /\ local_category = ""
    /\ days = 0
    /\ api_quote = <<>>
    /\ api_category = ""
    /\ fc_history = <<>>
    /\ recent_quotes = <<>>
    /\ prompt = <<>>
    /\ claude_quote = <<>>
    /\ subject = <<>>
    /\ body = <<>>
    /\ hist_writes = 0
    /\ smtp_attempts = 0
    /\ delivered = <<>>
    /\ stdout = <<>>
    /\ run = 0

\* The scheduler starts the script: a fresh process, its environment and the
\* bundled collection as they are that day; only the history file persists.
StartRun ==
    /\ pc = "idle"
    /\ run < MaxRuns
    /\ run' = run + 1
    /\ now' = now + 1
    /\ environ' \in Environments
    /\ start_date_env' \in StartDateValues
    /\ quotes_file' \in QuoteCollections
    /\ pc' = "load_quotes"
    /\ UNCHANGED <<history_file, net_api, net_claude, net_smtp, failed_at,
                   error, local_quotes, local_quote, local_category, days,
                   api_quote, api_category, fc_history, recent_quotes,
                   prompt, claude_quote, subject, body, hist_writes,
                   smtp_attempts, delivered, stdout>>

\* An exception leaves main(): the process ends with a traceback.
Abort(step, exc) ==
    /\ pc' = "failed"
    /\ failed_at' = step
    /\ error' = exc

\* local_quotes = load_quotes(); local_quote, local_category = get_random_quote(...)
MainLoadQuotes ==
    /\ pc = "load_quotes"
    /\ local_quotes' = load_quotes(quotes_file)
    /\ IF get_random_quote(local_quotes') = {}
       THEN /\ Abort("load_quotes", "IndexError")
            /\ UNCHANGED <<local_quote, local_category>>
       ELSE /\ \E r \in get_random_quote(local_quotes') :
                 /\ local_quote' = r[1]
                 /\ local_category' = r[2]
            /\ pc' = "calculate_days"
            /\ UNCHANGED <<failed_at, error>>
    /\ UNCHANGED <<history_file, quotes_file, environ, start_date_env, now,
                   net_api, net_claude, net_smtp, days, api_quote,
                   api_category, fc_history, recent_quotes, prompt,
                   claude_quote, subject, body, hist_writes, smtp_attempts,
                   delivered, stdout, run>>

\* days = calculate_days_since_start()
MainCalculateDays ==
    /\ pc = "calculate_days"
    /\ LET r == calculate_days_since_start(start_date_env, now)
       IN  IF r.raised
           THEN /\ Abort("calculate_days", "ValueError")
                /\ UNCHANGED days
           ELSE /\ days' = r.days
                /\ pc' = "fetch_api"
                /\ UNCHANGED <<failed_at, error>>
    /\ UNCHANGED <<history_file, quotes_file, environ, start_date_env, now,
                   net_api, net_claude, net_smtp, local_quotes, local_quote,
                   local_category, api_quote, api_category, fc_history,
                   recent_quotes, prompt, claude_quote, subject, body,
                   hist_writes, smtp_attempts, delivered, stdout, run>>

\* Mutant: no handler around fetch_api_quote(), its exception leaves main().
MainFetchApi_no_handler ==
    /\ pc = "fetch_api"
    /\ \E resp \in ApiResponses :
         /\ net_api' = resp
         /\ LET r == fetch_api_quote(resp)
            IN  IF ~r.raised
                THEN /\ api_quote' = r.text
                     /\ api_category' = r.category
                     /\ pc' = "fetch_claude"
                     /\ UNCHANGED <<failed_at, error>>
                ELSE /\ Abort("fetch_api", resp.kind)
                     /\ UNCHANGED <<api_quote, api_category>>
    /\ UNCHANGED <<history_file, quotes_file, environ, start_date_env, now,
                   net_claude, net_smtp, local_quotes, local_quote,
                   local_category, days, fc_history, recent_quotes, prompt,
                   claude_quote, subject, body, hist_writes, smtp_attempts,
                   delivered, stdout, run>>

\* try: api_quote, _ = fetch_api_quote()
\* except Exception: api_quote, _ = get_random_quote(local_quotes)
MainFetchApi ==
    /\ pc = "fetch_api"
    /\ \E resp \in ApiResponses :
         /\ net_api' = resp
         /\ LET r == fetch_api_quote(resp)
            IN  IF ~r.raised
                THEN /\ api_quote' = r.text
                     /\ api_category' = r.category
                     /\ UNCHANGED stdout
                ELSE /\ \E f \in get_random_quote(local_quotes) :
                          /\ api_quote' = f[1]
                          /\ api_category' = f[2]
                     /\ stdout' = Append(stdout, "ZenQuotes API fetch failed")
    /\ pc' = "fetch_claude"
    /\ UNCHANGED <<history_file, quotes_file, environ, start_date_env, now,
                   net_claude, net_smtp, failed_at, error, local_quotes,
                   local_quote, local_category, days, fc_history,
                   recent_quotes, prompt, claude_quote, subject, body,
                   hist_writes, smtp_attempts, delivered, run>>

\* try: claude_quote = fetch_claude_quote(), up to the request being built
\* except Exception: claude_quote = the fixed string
MainFetchClaudeBuild ==
    /\ pc = "fetch_claude"
    /\ LET r == FetchClaudeBuild(environ, history_file)
       IN  IF r.raised
           THEN /\ claude_quote' = FallbackQuote
                /\ stdout' = Append(stdout, "Claude API fetch failed")
                /\ pc' = "compose"
                /\ UNCHANGED <<fc_history, recent_quotes, prompt>>
           ELSE /\ fc_history' = r.history
                /\ recent_quotes' = r.recent
                /\ prompt' = r.prompt
                /\ pc' = "claude_request"
                /\ UNCHANGED <<claude_quote, stdout>>
    /\ UNCHANGED <<history_file, quotes_file, environ, start_date_env, now,
                   net_api, net_claude, net_smtp, failed_at, error,
                   local_quotes, local_quote, local_category, days,
                   api_quote, api_category, subject, body, hist_writes,
                   smtp_attempts, delivered, run>>

\* Mutant: the handler in main() catches HTTPError only; a timeout or a
\* malformed payload leaves main().
MainFetchClaudeCall_http_only ==
    /\ pc = "claude_request"
    /\ \E resp \in ClaudeResponses :
         /\ net_claude' = resp
         /\ LET r == FetchClaudeCall(history_file, resp, now)
            IN  /\ history_file' = r.file
                /\ hist_writes' = hist_writes + r.saves
                /\ stdout' = stdout \o r.printed
                /\ IF ~r.raised
                   THEN /\ claude_quote' = r.quote
                        /\ pc' = "compose"
                        /\ UNCHANGED <<failed_at, error>>
                   ELSE IF resp.kind = "http_error"
                        THEN /\ claude_quote' = FallbackQuote
                             /\ pc' = "compose"
                             /\ UNCHANGED <<failed_at, error>>
                        ELSE /\ Abort("claude_request", resp.kind)
                             /\ UNCHANGED claude_quote
    /\ UNCHANGED <<quotes_file, environ, start_date_env, now, net_api,
                   net_smtp, local_quotes, local_quote, local_category,
                   days, api_quote, api_category, fc_history, recent_quotes,
                   prompt, subject, body, smtp_attempts, delivered, run>>

\* ... the request, the response, the save; the same handler in main()
MainFetchClaudeCall ==
    /\ pc = "claude_request"
    /\ \E resp \in ClaudeResponses :
         /\ net_claude' = resp
         /\ LET r == FetchClaudeCall(history_file, resp, now)
            IN  /\ history_file' = r.file
                /\ hist_writes' = hist_writes + r.saves
                /\ IF ~r.raised
                   THEN /\ claude_quote' = r.quote
                        /\ stdout' = stdout \o r.printed
                   ELSE /\ claude_quote' = FallbackQuote
                        /\ stdout' = (stdout \o r.printed) \o
                                     <<"Claude API fetch failed">>
    /\ pc' = "compose"
    /\ UNCHANGED <<quotes_file, environ, start_date_env, now, net_api,
                   net_smtp, failed_at, error, local_quotes, local_quote,
                   local_category, days, api_quote, api_category,
                   fc_history, recent_quotes, prompt, subject, body,
                   smtp_attempts, delivered, run>>

\* subject = ...; body = create_email_body(...)
MainCompose ==
    /\ pc = "compose"
    /\ subject' = (<<"Day ">> \o IntStr(days)) \o <<": Your Daily Motivation">>
    /\ body' = create_email_body(local_quote, local_category, api_quote,
                                 claude_quote, days)
    /\ pc' = "send_email"
    /\ UNCHANGED <<history_file, quotes_file, environ, start_date_env, now,
                   net_api, net_claude, net_smtp, failed_at, error,
                   local_quotes, local_quote, local_category, days,
                   api_quote, api_category, fc_history, recent_quotes,
                   prompt, claude_quote, hist_writes, smtp_attempts,
                   delivered, stdout, run>>

\* send_email(subject, body); nothing in main() catches what it raises
MainSendEmail ==
    /\ pc = "send_email"
    /\ \E relay \in SmtpOutcomes :
         LET r == send_email(environ, subject, body, relay)
         IN  /\ net_smtp' = IF r.attempts = 0 THEN "none" ELSE relay
             /\ smtp_attempts' = smtp_attempts + r.attempts
             /\ delivered' = delivered \o r.accepted
             /\ stdout' = stdout \o r.printed
             /\ IF r.raised
                THEN Abort("send_email", r.exc)
                ELSE /\ pc' = "done"
                     /\ UNCHANGED <<failed_at, error>>
    /\ UNCHANGED <<history_file, quotes_file, environ, start_date_env, now,
                   net_api, net_claude, local_quotes, local_quote,
                   local_category, days, api_quote, api_category,
                   fc_history, recent_quotes, prompt, claude_quote, subject,
                   body, hist_writes, run>>

\* The process ends (exit status 0 after "done", 1 after "failed"): its
\* memory and environment are gone, the history file stays.
Exit ==
    /\ pc \in {"done", "failed"}
    /\ quotes_file' = <<>>
    /\ environ' = {}
    /\ start_date_env' = ""
    /\ net_api' = NoApiResponse
    /\ net_claude' = NoResponse
    /\ net_smtp' = "none"
    /\ pc' = "idle"
    /\ failed_at' = ""
    /\ error' = ""
    /\ local_quotes' = <<>>
    /\ local_quote' = <<>>
    /\ local_category' = ""
    /\ days' = 0
    /\ api_quote' = <<>>
    /\ api_category' = ""
    /\ fc_history' = <<>>
    /\ recent_quotes' = <<>>
    /\ prompt' = <<>>
    /\ claude_quote' = <<>>
    /\ subject' = <<>>
    /\ body' = <<>>
    /\ hist_writes' = 0
    /\ smtp_attempts' = 0
    /\ delivered' = <<>>
    /\ stdout' = <<>>
    /\ UNCHANGED <<history_file, now, run>>

Next ==
    \/ StartRun
    \/ MainLoadQuotes
    \/ MainCalculateDays
    \/ MainFetchApi
    \/ MainFetchClaudeBuild
    \/ MainFetchClaudeCall
    \/ MainCompose
    \/ MainSendEmail
    \/ Exit

Spec == Init /\ [][Next]_vars

(***************************************************************************)
(* create_email_body on its own: every input combination, then the call    *)
(***************************************************************************)
ComposeCategories ==
    {"general", "smoking", "alcohol", "gaming", "api", "fitness", ""}

ComposeTexts == {<<"Keep going">>, <<"Stay the course.", " - ", "Seneca">>}

ComposeDays == {0 - 17, 0, 5, 120}

InitCompose ==
    /\ history_file = [exists |-> FALSE, entries |-> <<>>]
    /\ quotes_file = <<>>
    /\ environ = RequiredVars
    /\ start_date_env = ""
    /\ now = 20
    /\ net_api = NoApiResponse
    /\ net_claude = NoResponse
    /\ net_smtp = "none"
    /\ pc = "compose"
    /\ failed_at = ""
    /\ error = ""
    /\ local_quotes = <<>>
    /\ local_quote \in ComposeTexts
    /\ local_category \in ComposeCategories
    /\ days \in ComposeDays
    /\ api_quote \in ComposeTexts
    /\ api_category = ""
    /\ fc_history = <<>>
    /\ recent_quotes = <<>>
    /\ prompt = <<>>
    /\ claude_quote \in ComposeTexts
    /\ subject = <<>>
    /\ body = <<>>
    /\ hist_writes = 0
    /\ smtp_attempts = 0
    /\ delivered = <<>>
    /\ stdout = <<>>
    /\ run = 1

NextCompose == MainCompose

SpecCompose == InitCompose /\ [][NextCompose]_vars

(***************************************************************************)
(* Properties                                                              *)
(***************************************************************************)
History == load_quote_history(history_file)

Finished == pc \in {"done", "failed"}

MailVars == {"GMAIL_ADDRESS", "GMAIL_APP_PASSWORD", "EMAIL_RECIPIENT"}

\* C1: whatever the runs did, the persisted history holds at most 30 entries.
C1_HistoryAtMostThirty == Len(History) <= 30

\* A save onto a full history has happened and the file still holds 30.
C1_Witness ==
    /\ hist_writes = 1
    /\ Len(fc_history) = 30
    /\ Len(History) = 30

\* C2: a save of text onto history H gives H followed by the new entry when
\* H has fewer than 30 entries, and H without its first entry followed by the
\* new entry when H has 30; the new entry is last and carries the text.
C2_SaveAppendsEvictingOldest ==
    [][hist_writes' = hist_writes + 1 =>
         LET H == load_quote_history(history_file)
             H2 == load_quote_history(history_file')
             text == Strip(net_claude'.text)
         IN  /\ history_file'.exists
             /\ Len(H2) >= 1
             /\ H2[Len(H2)].text = text
             /\ Len(H) < 30 =>
                  /\ Len(H2) = Len(H) + 1
                  /\ \A i \in 1..Len(H) : H2[i] = H[i]
             /\ Len(H) = 30 =>
                  /\ Len(H2) = 30
                  /\ \A i \in 1..29 : H2[i] = H[i + 1]]_vars

\* A save onto a 30-entry history: the oldest entry is gone, the new one last.
C2_Witness ==
    /\ hist_writes = 1
    /\ Len(fc_history) = 30
    /\ Len(History) = 30
    /\ History[1] = fc_history[2]
    /\ History[30].text = claude_quote
    /\ claude_quote = <<"Ask for help today.">>

\* C3: when the generative call fails (HTTP error status, timeout, malformed
\* payload) the generative quote is the fixed fallback string, in the email
\* too, and the history is what it was when the request started: no save.
C3_GenerativeFailureUsesFallback ==
    net_claude.kind \in {"http_error", "timeout", "malformed"} =>
        /\ claude_quote =
             <<"Every step forward, no matter how small, is a victory worth celebrating.">>
        /\ hist_writes = 0
        /\ History = fc_history
        /\ body # <<>> =>
             body[21] =
               <<"\"", "Every step forward, no matter how small, is a victory worth celebrating.", "\"">>
        /\ \A i \in 1..Len(delivered) : delivered[i].body = body

\* The provider answered 500 and the email with the fallback went out.
C3_Witness ==
    /\ net_claude.kind = "http_error"
    /\ net_claude.status = 500
    /\ pc = "done"
    /\ Len(delivered) = 1
    /\ Len(History) = 30

\* C4: once a non-empty collection is loaded and quote sourcing begins, no
\* outcome of the remote quote API or the generative API aborts the run: no
\* exception leaves main() between the first fetch and the call of
\* send_email, every step up to it can be taken, a finished run has composed
\* its message and called send_email, and with the mail settings present it
\* has opened exactly one session with the relay.
C4_QuoteSourcingNeverAborts ==
    /\ failed_at \notin {"fetch_api", "fetch_claude", "claude_request", "compose"}
    /\ pc = "fetch_api" => ENABLED MainFetchApi
    /\ pc = "fetch_claude" => ENABLED MainFetchClaudeBuild
    /\ pc = "claude_request" => ENABLED MainFetchClaudeCall
    /\ pc = "compose" => ENABLED MainCompose
    /\ pc = "send_email" => ENABLED MainSendEmail
    /\ (Finished /\ net_api.kind # "none") =>
          /\ local_quotes # <<>>
          /\ body # <<>>
          /\ pc = "done" \/ failed_at = "send_email"
          /\ MailVars \subseteq environ => smtp_attempts = 1

\* Both providers failed and the relay was still addressed, and accepted.
C4_Witness ==
    /\ net_api.kind = "timeout"
    /\ net_claude.kind = "malformed"
    /\ smtp_attempts = 1
    /\ pc = "done"
    /\ Len(delivered) = 1

\* C5 as stated: a run with any required setting missing ends in the fatal
\* outcome and no email goes out.
C5_MissingConfigIsFatal ==
    (Finished /\ environ # RequiredVars) =>
        /\ pc = "failed"
        /\ delivered = <<>>

\* C6: a run opens at most one session with the relay; when the relay refuses
\* (authentication rejected, connection error) nothing is retried or
\* substituted, no confirmation is printed and the run ends failed.
C6_SingleAttemptNoRecovery ==
    /\ smtp_attempts <= 1
    /\ Len(delivered) <= 1
    /\ net_smtp \in {"connect_error", "auth_rejected"} =>
          /\ smtp_attempts = 1
          /\ pc = "failed"
          /\ failed_at = "send_email"
          /\ error = net_smtp
          /\ delivered = <<>>
          /\ "Email sent successfully" \notin Range(stdout)
    /\ "Email sent successfully" \in Range(stdout) =>
          (pc = "done" /\ net_smtp = "ok" /\ Len(delivered) = 1)

\* The relay rejected the login: the run failed after its single attempt.
C6_Witness ==
    /\ net_smtp = "auth_rejected"
    /\ pc = "failed"
    /\ smtp_attempts = 1
    /\ body # <<>>

\* C7: when the remote quote call fails, the quote taken in its place is the
\* text of a member of the loaded local collection, whose category is that
\* member's and not "api", and the failure does not leave the fetch step.
C7_ApiFailureFallsBackToLocal ==
    net_api.kind \in {"timeout", "http_error", "malformed"} =>
        /\ \E i \in 1..Len(local_quotes) :
              /\ local_quotes[i].text = api_quote
              /\ local_quotes[i].category = api_category
        /\ api_category # "api"
        /\ pc # "fetch_api"
        /\ failed_at # "fetch_api"
        /\ body # <<>> => body[15] = (<<"\"">> \o api_quote) \o <<"\"">>

\* The remote call timed out and the email carries a local quote instead.
C7_Witness ==
    /\ net_api.kind = "timeout"
    /\ pc = "done"
    /\ api_quote = <<"Move a little">>
    /\ local_quote = <<"One breath at a time">>

\* C8: the label of the local-quote section is decided by the category
\* alone: general, smoking, alcohol and gaming have their own labels, every
\* other category (api too) gets "Daily Motivation".
C8_LabelFromCategory ==
    pc = "send_email" =>
        /\ Len(body) = 27
        /\ body[7] =
             << IF local_category = "smoking" THEN "Smoke-Free Journey"
                ELSE IF local_category = "alcohol" THEN "Sobriety Strength"
                ELSE IF local_category = "gaming" THEN "Real Life Focus"
                ELSE "Daily Motivation",
                ":" >>
        /\ body[9] = (<<"\"">> \o local_quote) \o <<"\"">>

\* A body composed for category "api" carries the default label.
C8_Witness ==
    /\ pc = "send_email"
    /\ local_category = "api"
    /\ body[7] = <<"Daily Motivation", ":">>

\* C9: when the request is about to be sent, the prompt's novelty context is
\* the texts of the last min(5, len) entries of the persisted history,
\* oldest first, numbered from 1; with an empty or absent history the prompt
\* is the base prompt alone.
C9_PromptCarriesLastFive ==
    pc = "claude_request" =>
        LET H == History
            n == IF Len(H) < 5 THEN Len(H) ELSE 5
        IN  /\ Len(recent_quotes) = n
            /\ \A i \in 1..n : recent_quotes[i] = H[Len(H) - n + i].text
            /\ prompt[1] = BasePrompt
            /\ Len(prompt) = IF n = 0 THEN 1 ELSE 4 + n
            /\ \A i \in 1..n :
                 prompt[4 + i] =
                   ((IntStr(i) \o <<". ", "\"">>) \o H[Len(H) - n + i].text)
                     \o <<"\"">>

\* A request built from a 30-entry history: entries 26..30 are the context.
C9_Witness ==
    /\ pc = "claude_request"
    /\ Len(History) = 30
    /\ Len(recent_quotes) = 5
    /\ recent_quotes[1] = History[26].text
    /\ recent_quotes[1] # History[1].text

\* C10: a run saves to the history at most once, and from the call of
\* send_email on (whether the delivery succeeds or fails) the generative
\* quote in the body is the fallback string or the text of the last entry of
\* the persisted history.
C10_SaveBeforeDelivery ==
    /\ hist_writes <= 1
    /\ (pc \in {"send_email", "done"} \/ failed_at = "send_email") =>
          /\ body[21] = (<<"\"">> \o claude_quote) \o <<"\"">>
          /\ \/ claude_quote =
                  <<"Every step forward, no matter how small, is a victory worth celebrating.">>
             \/ /\ hist_writes = 1
                /\ Len(History) >= 1
                /\ History[Len(History)].text = claude_quote

\* The relay rejected the login after a generated quote was saved: the saved
\* entry is still the last one.
C10_Witness ==
    /\ failed_at = "send_email"
    /\ net_smtp = "auth_rejected"
    /\ hist_writes = 1
    /\ History[Len(History)].text = claude_quote
    /\ claude_quote = <<"Show up anyway.">>

====
